---- MODULE Spec2Model ----
(***************************************************************************)
(* PDFProspector: the LLM extraction service (LLMService) and the JSON     *)
(* handling of its two providers.                                          *)
(*                                                                         *)
(* A provider's response text is a sequence of lexemes.  Each lexeme is    *)
(* one structural character of the raw text, or one literal of it:         *)
(*   "{" "}" "[" "]" "," ":"   the structural characters                   *)
(*   "K"   the string literal "goals"      "I"   the string literal "id"   *)
(*   "B"   a string literal holding a closing brace, "}"                   *)
(*   "S"   the string literal "status"     "C"   the literal "completed"   *)
(*   "1"   a digit        "n"   the literal null      "_"   a blank        *)
(*   "U"   a string literal cut after its closing brace (only ever the     *)
(*         last lexeme of a region a regular expression matched)           *)
(***************************************************************************)
EXTENDS Integers, Sequences, FiniteSets, TLC

\* ------------------------------------------------------------------ bounds
MaxLen == 2
MaxItems == 1
MaxGoals == 4
MaxPieces == 4
MaxPages == 3
MaxUploads == 3
Margin == 5

\* ------------------------------------------------------- JSON values
StringTokens == {"K", "I", "B", "S", "C"}

TextChars == {"{", "}", "[", "]", "K", "1", "n", "_"}

StringContent(tok) ==
    CASE tok = "K" -> "goals"
      [] tok = "I" -> "id"
      [] tok = "B" -> "}"
      [] tok = "S" -> "status"
      [] tok = "C" -> "completed"

Undefined == [k |-> "undefined", v |-> <<>>]
Null == [k |-> "null", v |-> <<>>]
Num(digits) == [k |-> "num", v |-> digits]
Str(s) == [k |-> "str", v |-> <<s>>]
Arr(elems) == [k |-> "arr", v |-> elems]
Obj(members) == [k |-> "obj", v |-> members]
Member(key, val) == [key |-> key, val |-> val]

\* -------------------------------------------------- JSON.parse(text)
\* An object keeps one member per key: a repeated key overwrites the value
\* at the position of its first occurrence.
HasKey(members, key) == \E j \in 1..Len(members) : members[j].key = key

SetMember(members, key, val) ==
    IF HasKey(members, key)
    THEN [j \in 1..Len(members) |->
             IF members[j].key = key THEN Member(key, val) ELSE members[j]]
    ELSE Append(members, Member(key, val))

ParseFail == [ok |-> FALSE, val |-> Undefined, next |-> 0]
Parsed(val, next) == [ok |-> TRUE, val |-> val, next |-> next]

RECURSIVE SkipWs(_, _)
SkipWs(t, i) == IF i <= Len(t) /\ t[i] = "_" THEN SkipWs(t, i + 1) ELSE i

RECURSIVE NumEnd(_, _)
NumEnd(t, i) == IF i <= Len(t) /\ t[i] = "1" THEN NumEnd(t, i + 1) ELSE i

RECURSIVE ParseValue(_, _), ParseElements(_, _, _), ParseMembers(_, _, _)
ParseValue(t, i0) ==
    LET i == SkipWs(t, i0) IN
    IF i > Len(t) THEN ParseFail
    ELSE CASE t[i] = "n" -> Parsed(Null, i + 1)
           [] t[i] = "1" -> Parsed(Num(SubSeq(t, i, NumEnd(t, i) - 1)), NumEnd(t, i))
           [] t[i] \in StringTokens -> Parsed(Str(StringContent(t[i])), i + 1)
           [] t[i] = "[" ->
                LET j == SkipWs(t, i + 1) IN
                IF j <= Len(t) /\ t[j] = "]"
                THEN Parsed(Arr(<<>>), j + 1)
                ELSE ParseElements(t, i + 1, <<>>)
           [] t[i] = "{" ->
                LET j == SkipWs(t, i + 1) IN
                IF j <= Len(t) /\ t[j] = "}"
                THEN Parsed(Obj(<<>>), j + 1)
                ELSE ParseMembers(t, i + 1, <<>>)
           [] OTHER -> ParseFail

ParseElements(t, i, acc) ==
    LET r == ParseValue(t, i) IN
    IF ~r.ok THEN ParseFail
    ELSE LET j == SkipWs(t, r.next) IN
         IF j > Len(t) THEN ParseFail
         ELSE IF t[j] = "," THEN ParseElements(t, j + 1, Append(acc, r.val))
         ELSE IF t[j] = "]" THEN Parsed(Arr(Append(acc, r.val)), j + 1)
         ELSE ParseFail

ParseMembers(t, i0, acc) ==
    LET i == SkipWs(t, i0) IN
    IF i > Len(t) \/ ~(t[i] \in StringTokens) THEN ParseFail
    ELSE LET c == SkipWs(t, i + 1) IN
         IF c > Len(t) \/ t[c] # ":" THEN ParseFail
         ELSE LET r == ParseValue(t, c + 1) IN
              IF ~r.ok THEN ParseFail
              ELSE LET j == SkipWs(t, r.next)
                       m == SetMember(acc, StringContent(t[i]), r.val)
                   IN IF j > Len(t) THEN ParseFail
                      ELSE IF t[j] = "," THEN ParseMembers(t, j + 1, m)
                      ELSE IF t[j] = "}" THEN Parsed(Obj(m), j + 1)
                      ELSE ParseFail

\* JSON.parse: one value, blanks around it, nothing else; otherwise a
\* SyntaxError.
JSONParse(t) ==
    LET r == ParseValue(t, 1) IN
    IF r.ok /\ SkipWs(t, r.next) = Len(t) + 1
    THEN [ok |-> TRUE, val |-> r.val]
    ELSE [ok |-> FALSE, val |-> Undefined]

\* ------------------------------------------------------------ errors
\* A string the service builds is a sequence of pieces; <<>> is the empty
\* (or absent) string, which JavaScript's || treats alike.
\* A thrown value as prettyError reads it: message is err.message,
\* hasInner says whether err.error is present, innerMessage is
\* err.error.message, statusText is the response.statusText of the object
\* prettyError looks into, str is err.toString(); nullish is a thrown
\* null/undefined.
Thrown(message, statusCode) ==
    [nullish |-> FALSE, message |-> message, hasInner |-> FALSE,
     innerMessage |-> <<>>, statusText |-> <<>>, str |-> <<"Error">>,
     statusCode |-> statusCode]

NoError == Thrown(<<>>, 0)

createError(message, statusCode) == Thrown(message, statusCode)

SyntaxError == Thrown(<<"Unexpected token in JSON">>, 0)
TypeError == Thrown(<<"Cannot read properties">>, 0)

\* The failures the two SDK clients raise (authentication, quota, network).
ApiErrors ==
    { Thrown(<<"401 Incorrect API key provided">>, 401),
      [Thrown(<<>>, 429) EXCEPT !.hasInner = TRUE,
                                !.innerMessage = <<"You exceeded your current quota">>],
      [Thrown(<<"Connection error.">>, 0) EXCEPT !.hasInner = TRUE],
      [Thrown(<<>>, 0) EXCEPT !.statusText = <<"Service Unavailable">>],
      [Thrown(<<>>, 0) EXCEPT !.str = <<"[object Object]">>],
      [Thrown(<<>>, 0) EXCEPT !.nullish = TRUE, !.str = <<>>] }

Or(a, b) == IF a # <<>> THEN a ELSE b

prettyError(err) ==
    IF err.nullish THEN <<>>
    ELSE LET openaiMsg == IF err.hasInner
                          THEN err.innerMessage
                          ELSE Or(err.message, err.statusText)
             ae == Or(err.message, err.innerMessage)
         IN Or(openaiMsg, ae)

\* ------------------------------------------------- provider gateway
Returned(val) == [ok |-> TRUE, val |-> val, err |-> NoError]
Raised(err) == [ok |-> FALSE, val |-> Undefined, err |-> err]

\* content.match(/\{/g).length and its three siblings, counted on the raw
\* characters: a closing brace inside a string literal counts too.
RECURSIVE CountChar(_, _)
CountChar(t, ch) ==
    IF t = <<>> THEN 0
    ELSE CountChar(Tail(t), ch)
         + (IF Head(t) = ch \/ (ch = "}" /\ Head(t) \in {"B", "U"}) THEN 1 ELSE 0)

RECURSIVE Trim(_)
Trim(t) ==
    IF t = <<>> THEN t
    ELSE IF Head(t) = "_" THEN Trim(Tail(t))
    ELSE IF t[Len(t)] = "_" THEN Trim(SubSeq(t, 1, Len(t) - 1))
    ELSE t

EndsWithBrace(t) == t # <<>> /\ t[Len(t)] \in {"}", "U"}

Repeat(ch, n) == [j \in 1..(IF n > 0 THEN n ELSE 0) |-> ch]

EmptySkeleton ==
    Obj(<< Member("goals", Arr(<<>>)), Member("bmps", Arr(<<>>)),
           Member("implementation", Arr(<<>>)), Member("monitoring", Arr(<<>>)),
           Member("outreach", Arr(<<>>)), Member("geographicAreas", Arr(<<>>)) >>)

\* A repair that closes the braces before the brackets.
FixedContentBracesFirst(content) ==
    content
    \o Repeat("}", CountChar(content, "{") - CountChar(content, "}"))
    \o Repeat("]", CountChar(content, "[") - CountChar(content, "]"))

\* The repaired text of extractWithOpenAI: the missing closing brackets,
\* then the missing closing braces.
FixedContent(content) ==
    content
    \o Repeat("]", CountChar(content, "[") - CountChar(content, "]"))
    \o Repeat("}", CountChar(content, "{") - CountChar(content, "}"))

\* extractWithOpenAI after the API call returned `content`.
ParseOpenAIContent(content) ==
    LET first == JSONParse(content)
        second == JSONParse(FixedContent(content))
    IN IF content = <<>> THEN Raised(createError(<<"No response from OpenAI">>, 502))
       ELSE IF first.ok THEN Returned(first.val)
       ELSE IF ~EndsWithBrace(Trim(content)) /\ second.ok THEN Returned(second.val)
       ELSE Returned(EmptySkeleton)

\* The copy of extractWithOpenAI under apps/backend: JSON.parse alone.
ParseOpenAIContentApps(content) ==
    LET first == JSONParse(content)
    IN IF content = <<>> THEN Raised(createError(<<"No response from OpenAI">>, 502))
       ELSE IF first.ok THEN Returned(first.val)
       ELSE Raised(SyntaxError)

\* piece.text.match(/\{[\s\S]*\}/): from the first opening brace to the last
\* closing brace after it.  A last closing brace lying inside a string
\* literal cuts that literal ("U").
FirstOpen(t) ==
    IF \E i \in 1..Len(t) : t[i] = "{"
    THEN CHOOSE i \in 1..Len(t) : t[i] = "{" /\ \A h \in 1..(i - 1) : t[h] # "{"
    ELSE 0

LastClose(t) ==
    IF \E j \in 1..Len(t) : t[j] \in {"}", "B"}
    THEN CHOOSE j \in 1..Len(t) :
             t[j] \in {"}", "B"} /\ \A h \in (j + 1)..Len(t) : ~(t[h] \in {"}", "B"})
    ELSE 0

HasJsonMatch(t) == FirstOpen(t) > 0 /\ LastClose(t) > FirstOpen(t)

JsonMatch(t) ==
    IF t[LastClose(t)] = "B"
    THEN Append(SubSeq(t, FirstOpen(t), LastClose(t) - 1), "U")
    ELSE SubSeq(t, FirstOpen(t), LastClose(t))

\* extractWithAnthropic given the forgiving ending of extractWithOpenAI.
ParseAnthropicPieceLenient(isText, text) ==
    LET region == JSONParse(JsonMatch(text))
    IN IF ~isText
       THEN Raised(createError(<<"Invalid response type from Anthropic">>, 502))
       ELSE IF HasJsonMatch(text) /\ region.ok THEN Returned(region.val)
       ELSE Returned(EmptySkeleton)

\* extractWithAnthropic after the API call returned its first content piece:
\* isText says that the piece exists and is of type "text".
ParseAnthropicPiece(isText, text) ==
    LET region == JSONParse(JsonMatch(text))
    IN IF ~isText
       THEN Raised(createError(<<"Invalid response type from Anthropic">>, 502))
       ELSE IF ~HasJsonMatch(text)
            THEN Raised(createError(<<"No valid JSON found in Anthropic response">>, 502))
       ELSE IF region.ok THEN Returned(region.val)
       ELSE Raised(SyntaxError)

\* -------------------------------------------------- structureResponse
Categories ==
    <<"goals", "bmps", "implementation", "monitoring", "outreach", "geographicAreas">>

\* Reading a property: throws on null and undefined, is undefined on a
\* primitive or an array, and the member's value on an object.
CanRead(v) == ~(v.k \in {"null", "undefined"})

Get(v, key) ==
    IF v.k = "obj" /\ HasKey(v.v, key)
    THEN (CHOOSE m \in {v.v[j] : j \in 1..Len(v.v)} : m.key = key).val
    ELSE IF v.k = "arrid" /\ key = "id" THEN v.v[2]
    ELSE Undefined

Truthy(v) ==
    CASE v.k \in {"undefined", "null"} -> FALSE
      [] v.k = "str" -> v.v # <<"">>
      [] OTHER -> TRUE

Uuid(n) == [k |-> "str", v |-> <<"uuid">> \o [j \in 1..n |-> "1"]]

\* The backfill giving every record a fresh identifier.
RECURSIVE BackfillOverwrite(_, _, _, _)
BackfillOverwrite(elems, n, strict, acc) ==
    IF elems = <<>> THEN [ok |-> TRUE, elems |-> acc, n |-> n]
    ELSE LET g == Head(elems) IN
         IF g.k = "obj"
         THEN BackfillOverwrite(Tail(elems), n + 1, strict,
                                Append(acc, Obj(SetMember(g.v, "id", Uuid(n + 1)))))
         ELSE [ok |-> FALSE, elems |-> acc, n |-> n]

\* if (!g.id) g.id = uuidv4() for the elements of one collection, in order;
\* n counts the identifiers generated so far.  Assigning a property to a
\* primitive throws in strict mode and is ignored otherwise.
RECURSIVE Backfill(_, _, _, _)
Backfill(elems, n, strict, acc) ==
    IF elems = <<>> THEN [ok |-> TRUE, elems |-> acc, n |-> n]
    ELSE LET g == Head(elems) IN
         IF ~CanRead(g) THEN [ok |-> FALSE, elems |-> acc, n |-> n]
         ELSE IF Truthy(Get(g, "id")) THEN Backfill(Tail(elems), n, strict, Append(acc, g))
         ELSE IF g.k = "obj"
              THEN Backfill(Tail(elems), n + 1, strict,
                            Append(acc, Obj(SetMember(g.v, "id", Uuid(n + 1)))))
         ELSE IF g.k = "arr"
              THEN Backfill(Tail(elems), n + 1, strict,
                            Append(acc, [k |-> "arrid", v |-> <<g, Uuid(n + 1)>>]))
         ELSE IF strict THEN [ok |-> FALSE, elems |-> acc, n |-> n]
         ELSE Backfill(Tail(elems), n + 1, strict, Append(acc, g))

\* The six forEach loops, in the order of the source.  cols[c] is the value
\* of `extractedData.<category> || []`; forEach exists on arrays only.
RECURSIVE BackfillAll(_, _, _, _)
BackfillAll(cols, c, n, strict) ==
    IF c > Len(Categories) THEN [ok |-> TRUE, cols |-> cols]
    ELSE IF cols[c].k # "arr" THEN [ok |-> FALSE, cols |-> cols]
    ELSE LET r == Backfill(cols[c].v, n, strict, <<>>) IN
         IF ~r.ok THEN [ok |-> FALSE, cols |-> cols]
         ELSE BackfillAll([cols EXCEPT ![c] = Arr(r.elems)], c + 1, r.n, strict)

OPENAI_MODEL(build) == IF build = "apps" THEN "gpt-4o-mini" ELSE "gpt-4.1-2025-04-14"
ANTHROPIC_MODEL == "claude-3-haiku-20240307"

ProcessingMethod(providerUsed, build) ==
    IF providerUsed = "openai"
    THEN <<"OpenAI", OPENAI_MODEL(build)>>
    ELSE <<"Anthropic", ANTHROPIC_MODEL>>

IsCompleted(g) == Get(g, "status") = Str("completed")

CountCompleted(goals) == Cardinality({j \in 1..Len(goals) : IsCompleted(goals[j])})

\* The rate cut to an integer instead of rounded.
CompletionRateFloor(goals) ==
    IF Len(goals) > 0 THEN (100 * CountCompleted(goals)) \div Len(goals) ELSE 0

\* Math.round((completedGoals / goals.length) * 100)
CompletionRate(goals) ==
    IF Len(goals) > 0
    THEN (200 * CountCompleted(goals) + Len(goals)) \div (2 * Len(goals))
    ELSE 0

NoReport ==
    [summary |-> [totalGoals |-> 0, totalBMPs |-> 0, completionRate |-> 0,
                  extractionAccuracy |-> 0],
     cols |-> [c \in 1..Len(Categories) |-> Undefined],
     metadata |-> [fileName |-> "", fileSize |-> 0, processingMethod |-> <<>>]]

\* structureResponse; the wall-clock fields (processingTime, extractedAt)
\* are left out.
structureResponse(extractedData, fileName, fileSize, providerUsed, build, strict) ==
    IF ~CanRead(extractedData) THEN [ok |-> FALSE, report |-> NoReport]
    ELSE LET read == [c \in 1..Len(Categories) |->
                         IF Truthy(Get(extractedData, Categories[c]))
                         THEN Get(extractedData, Categories[c])
                         ELSE Arr(<<>>)]
             filled == BackfillAll(read, 1, 0, strict)
         IN IF ~filled.ok THEN [ok |-> FALSE, report |-> NoReport]
            ELSE [ok |-> TRUE,
                  report |->
                    [summary |-> [totalGoals |-> Len(filled.cols[1].v),
                                  totalBMPs |-> Len(filled.cols[2].v),
                                  completionRate |-> CompletionRate(filled.cols[1].v),
                                  extractionAccuracy |-> 85],
                     cols |-> filled.cols,
                     metadata |-> [fileName |-> fileName, fileSize |-> fileSize,
                                   processingMethod |->
                                       ProcessingMethod(providerUsed, build)]]]

\* ------------------------------------------------ provider responses
RECURSIVE Stringify(_), StringifyElems(_, _), StringifyMembers(_, _)
TokenOf(content) == CHOOSE tok \in StringTokens : StringContent(tok) = content

Stringify(val) ==
    CASE val.k = "null" -> <<"n">>
      [] val.k = "num" -> val.v
      [] val.k = "str" -> <<TokenOf(val.v[1])>>
      [] val.k = "arr" -> <<"[">> \o StringifyElems(val.v, 1) \o <<"]">>
      [] val.k = "obj" -> <<"{">> \o StringifyMembers(val.v, 1) \o <<"}">>

StringifyElems(elems, j) ==
    IF j > Len(elems) THEN <<>>
    ELSE (IF j > 1 THEN <<",">> ELSE <<>>)
         \o Stringify(elems[j]) \o StringifyElems(elems, j + 1)

StringifyMembers(members, j) ==
    IF j > Len(members) THEN <<>>
    ELSE (IF j > 1 THEN <<",">> ELSE <<>>)
         \o <<TokenOf(members[j].key), ":">> \o Stringify(members[j].val)
         \o StringifyMembers(members, j + 1)

\* The records, collections and documents a model may answer with.
RecordValues ==
    { Obj(<<>>), Obj(<<Member("id", Str("goals"))>>), Obj(<<Member("id", Str("}"))>>),
      Obj(<<Member("status", Str("completed"))>>), Null, Num(<<"1">>) }

GoalsValues ==
    { Arr(elems) : elems \in UNION {[1..m -> RecordValues] : m \in 0..MaxItems} }
    \cup { Num(<<"1">>), Str("goals"), Obj(<<Member("id", Arr(<<Num(<<"1">>)>>))>>) }

Documents ==
    { Obj(<<>>) } \cup { Obj(<<Member("goals", g)>>) : g \in GoalsValues }

Prefixes(t) == { SubSeq(t, 1, m) : m \in 0..Len(t) }

\* Complete documents, every truncation of one, a document inside prose,
\* and every text of at most MaxLen lexemes.
ResponseTexts ==
    UNION { Prefixes(Stringify(d)) : d \in Documents }
    \cup { <<"1", "_">> \o Stringify(d) \o <<"_", "1">> : d \in Documents }
    \cup UNION { [1..m -> TextChars] : m \in 0..MaxLen }

\* ------------------------------------------------- LLMService state
VARIABLES
    build,          \* which copy of the service runs: "enhanced" or "apps"
    haveOpenAI,     \* this.openai is set (OPENAI_API_KEY present)
    haveAnthropic,  \* this.anthropic is set (ANTHROPIC_API_KEY present)
    pc,             \* position of the extractData call
    options,        \* the model option and the file of the call
    allowFallback,  \* const allowFallback = options.allowFallback ?? true
    providers,      \* the plan: const providers
    idx,            \* position of the for loop in providers
    errors,         \* const errors: string[]
    inflight,       \* the backends whose API call is awaited
    calls,          \* the backends invoked so far, in order
    lastResponse,   \* the outcome of the latest API call
    report,         \* the report extractData returned
    thrown,         \* the error extractData threw
    original,       \* repair check: the document the model meant to send
    raw,            \* repair check: the text that arrived
    recovered,      \* repair check: what extractWithOpenAI made of raw
    rpc,            \* repair check: position
    extractedData,  \* finalize check: the value a provider call returned
    finalized,      \* finalize check: what structureResponse made of it
    data,           \* what pdfParse made of the uploaded buffer
    pdfContent,     \* what PDFProcessor.extractText made of data
    document,       \* prompt check: the text and page texts handed over
    prompt,         \* prompt check: what buildExtractionPrompt returned
    request,        \* POST /api/extract: the upload and the form fields
    route,          \* POST /api/extract: position of the handler
    response,       \* POST /api/extract: what the client is sent
    llmService,     \* the module-level llmService of the route, created lazily
    frames,         \* concurrent requests: the locals of each extractData call
    app,            \* App: extractedData, isProcessing, errorMessage
    selectedFile,   \* PDFUpload: the selectedFile of the mounted component
    pending         \* the handleUpload calls awaiting uploadAndProcessPDF

vars == <<build, haveOpenAI, haveAnthropic, pc, options, allowFallback, providers,
          idx, errors, inflight, calls, lastResponse, report, thrown,
          original, raw, recovered, rpc, extractedData, finalized,
          data, pdfContent, document, prompt, request, route, response,
          llmService, frames, app, selectedFile, pending>>

repairVars == <<original, raw, recovered, rpc>>

finalizeVars == <<extractedData, finalized>>

normalizerVars == <<data, pdfContent>>

promptVars == <<document, prompt>>

routeVars == <<request, route, response>>

concurrentVars == <<llmService, frames>>

uiVars == <<app, selectedFile, pending>>

\* What only the checks of concurrent requests and of the frontend change.
laterVars == <<concurrentVars, uiVars>>

config == <<build, haveOpenAI, haveAnthropic>>

Models == {"openai", "anthropic", "unset", "other"}
FallbackOptions == {"unset", "true", "false"}
FileNames == {"plan.pdf"}
FileSizes == {1024}

NoOptions == [model |-> "unset", fileName |-> "", fileSize |-> 0]
NoResponse == [kind |-> "none", text |-> <<>>, err |-> NoError]

NotFinalized == [done |-> FALSE, ok |-> FALSE, report |-> NoReport]

\* No extractData call is under way.
ServiceIdle ==
    /\ pc = "idle"
    /\ options = NoOptions
    /\ allowFallback = TRUE
    /\ providers = <<>>
    /\ idx = 0
    /\ errors = <<>>
    /\ inflight = {}
    /\ calls = <<>>
    /\ lastResponse = NoResponse
    /\ report = NoReport
    /\ thrown = NoError

RepairIdle ==
    /\ original = Undefined
    /\ raw = <<>>
    /\ recovered = Raised(NoError)
    /\ rpc = "none"

FinalizeIdle ==
    /\ extractedData = Undefined
    /\ finalized = NotFinalized

NoData ==
    [failed |-> FALSE, isError |-> FALSE, err |-> NoError, text |-> <<>>,
     numpages |-> 0]

NoContent ==
    [done |-> FALSE, ok |-> FALSE, err |-> NoError, text |-> <<>>,
     pageTexts |-> <<>>, pages |-> 0]

NormalizerIdle ==
    /\ data = NoData
    /\ pdfContent = NoContent

NoDocument == [length |-> 0, pages |-> 0, pageLengths |-> <<>>]

NoPrompt == [built |-> FALSE, banner |-> 0, embedded |-> 0, truncated |-> FALSE]

PromptIdle ==
    /\ document = NoDocument
    /\ prompt = NoPrompt

NoRequest ==
    [file |-> FALSE, mimetype |-> "", oversized |-> FALSE, signature |-> FALSE,
     encryptMarker |-> FALSE, model |-> "unset"]

NoAnswer == [ok |-> FALSE, report |-> NoReport, err |-> NoError]

\* The requests served at the same time.
Clients == {1, 2}

NoFrame ==
    [pc |-> "idle", model |-> "unset", history |-> <<>>, providers |-> <<>>,
     idx |-> 0, errors |-> <<>>, calls |-> <<>>, report |-> NoReport,
     thrown |-> NoError]

ConcurrentIdle ==
    /\ llmService = FALSE
    /\ frames = [c \in Clients |-> NoFrame]

\* The three useState cells of App at their initial values; "" is null.
NoApp == [extractedData |-> "", isProcessing |-> FALSE, errorMessage |-> ""]

NoFile == [name |-> "", type |-> ""]

NoUploads == [inflight |-> {}, settled |-> <<>>]

AppIdle ==
    /\ app = NoApp
    /\ selectedFile = NoFile
    /\ pending = NoUploads

RouteIdle ==
    /\ request = NoRequest
    /\ route = "none"
    /\ response = NoAnswer

\* The constructor throws unless at least one key is present.
Init ==
    /\ build \in {"enhanced", "apps"}
    /\ haveOpenAI \in BOOLEAN
    /\ haveAnthropic \in BOOLEAN
    /\ haveOpenAI \/ haveAnthropic
    /\ ServiceIdle
    /\ RepairIdle
    /\ FinalizeIdle
    /\ NormalizerIdle
    /\ PromptIdle
    /\ RouteIdle
    /\ ConcurrentIdle
    /\ AppIdle

\* planProviders with the fallback flag ignored.
planProvidersAlwaysFallback(preferred, allow, haveO, haveA) ==
    IF haveO /\ ~haveA THEN <<"openai">>
    ELSE IF ~haveO /\ haveA THEN <<"anthropic">>
    ELSE LET primary == IF preferred = "unset" THEN "openai" ELSE preferred
             secondary == IF primary = "openai" THEN "anthropic" ELSE "openai"
         IN <<primary, secondary>>

\* planProviders with the preferred provider ignored.
planProvidersOpenAIFirst(preferred, allow, haveO, haveA) ==
    IF haveO /\ ~haveA THEN <<"openai">>
    ELSE IF ~haveO /\ haveA THEN <<"anthropic">>
    ELSE IF allow THEN <<"openai", "anthropic">> ELSE <<"openai">>

\* planProviders falling back to the preferred provider itself.
planProvidersRetry(preferred, allow, haveO, haveA) ==
    IF haveO /\ ~haveA THEN <<"openai">>
    ELSE IF ~haveO /\ haveA THEN <<"anthropic">>
    ELSE LET primary == IF preferred = "unset" THEN "openai" ELSE preferred
         IN IF allow THEN <<primary, primary>> ELSE <<primary>>

planProviders(preferred, allow, haveO, haveA) ==
    IF haveO /\ ~haveA THEN <<"openai">>
    ELSE IF ~haveO /\ haveA THEN <<"anthropic">>
    ELSE LET primary == IF preferred = "unset" THEN "openai" ELSE preferred
             secondary == IF primary = "openai" THEN "anthropic" ELSE "openai"
         IN IF allow THEN <<primary, secondary>> ELSE <<primary>>

\* options.allowFallback ?? true
AllowFallback(given) == given # "false"

\* provider === "openai" ? extractWithOpenAI : extractWithAnthropic
Backend(provider) == IF provider = "openai" THEN "openai" ELSE "anthropic"

Configured(backend) == IF backend = "openai" THEN haveOpenAI ELSE haveAnthropic

\* `${provider}: ${pretty}`
ErrorEntry(provider, err) ==
    <<provider, ": ">> \o Or(Or(prettyError(err), err.str), <<"unknown error">>)

\* A join that keeps the last failure only.
JoinLast(es) == IF es = <<>> THEN <<>> ELSE es[Len(es)]

\* errors.join(" | ")
RECURSIVE Join(_)
Join(es) ==
    IF es = <<>> THEN <<>>
    ELSE IF Len(es) = 1 THEN es[1]
    ELSE es[1] \o <<" | ">> \o Join(Tail(es))

ExhaustedError(es) ==
    createError(<<"Failed to extract data using AI (">> \o Join(es) \o <<")">>, 502)

\* extractData up to the loop: the plan and an empty error list.
ExtractData(model, givenFallback, fileName, fileSize) ==
    /\ pc = "idle"
    /\ options' = [model |-> model, fileName |-> fileName, fileSize |-> fileSize]
    /\ allowFallback' = AllowFallback(givenFallback)
    /\ providers' = planProviders(model, allowFallback', haveOpenAI, haveAnthropic)
    /\ errors' = <<>>
    /\ idx' = 1
    /\ pc' = "loop"
    /\ UNCHANGED <<config, inflight, calls, lastResponse, report, thrown>>

\* The catch block of the loop: record the failure and go on with the next
\* provider; after the last one the loop ends and the aggregate error is
\* thrown in the same step.
Catch(err) ==
    LET recorded == Append(errors, ErrorEntry(providers[idx], err)) IN
    /\ errors' = recorded
    /\ idx' = idx + 1
    /\ IF idx < Len(providers)
       THEN pc' = "loop" /\ UNCHANGED thrown
       ELSE pc' = "thrown" /\ thrown' = ExhaustedError(recorded)
    /\ UNCHANGED report

\* One iteration up to the await: the API call of the planned provider's
\* backend is issued, unless that backend has no client.
Invoke ==
    /\ pc = "loop"
    /\ idx <= Len(providers)
    /\ IF Configured(Backend(providers[idx]))
       THEN /\ inflight' = inflight \cup {Backend(providers[idx])}
            /\ calls' = Append(calls, Backend(providers[idx]))
            /\ pc' = "await"
            /\ UNCHANGED <<idx, errors, report, thrown>>
       ELSE /\ Catch(createError(IF Backend(providers[idx]) = "openai"
                                  THEN <<"OpenAI not configured">>
                                  ELSE <<"Anthropic not configured">>, 500))
            /\ UNCHANGED <<inflight, calls>>
    /\ lastResponse' = NoResponse
    /\ UNCHANGED <<config, options, allowFallback, providers>>

\* The rest of the iteration once the gateway produced `outcome`:
\* structureResponse and return, or the catch block.  Whether the compiled
\* service runs in strict mode is not fixed by the source: either outcome
\* of an assignment to a primitive is possible.
\* structureResponse told the first planned provider, not the current one.
FinalizeAsFirst(outcome, strict) ==
    structureResponse(outcome.val, options.fileName, options.fileSize,
                      providers[1], build, strict)

Finalize(outcome, strict) ==
    structureResponse(outcome.val, options.fileName, options.fileSize,
                      providers[idx], build, strict)

\* The iteration going on to the next provider after a success.
CompleteKeepsGoing(outcome) ==
    \E strict \in BOOLEAN :
        LET final == Finalize(outcome, strict) IN
        IF outcome.ok /\ final.ok
        THEN /\ report' = final.report
             /\ pc' = "loop"
             /\ idx' = idx + 1
             /\ UNCHANGED <<errors, thrown>>
        ELSE Catch(IF outcome.ok THEN TypeError ELSE outcome.err)

\* The iteration treating a success as one more failure while another
\* provider is left.
CompleteDropsSuccess(outcome) ==
    \E strict \in BOOLEAN :
        LET final == Finalize(outcome, strict) IN
        IF outcome.ok /\ final.ok /\ idx = Len(providers)
        THEN /\ report' = final.report
             /\ pc' = "returned"
             /\ UNCHANGED <<idx, errors, thrown>>
        ELSE Catch(IF outcome.ok THEN TypeError ELSE outcome.err)

\* The iteration with structureResponse outside the try block: what it
\* raises leaves extractData at once.
CompleteEscapes(outcome) ==
    \E strict \in BOOLEAN :
        LET final == Finalize(outcome, strict) IN
        IF outcome.ok /\ final.ok
        THEN /\ report' = final.report
             /\ pc' = "returned"
             /\ UNCHANGED <<idx, errors, thrown>>
        ELSE IF outcome.ok
        THEN /\ pc' = "thrown"
             /\ thrown' = TypeError
             /\ UNCHANGED <<idx, errors, report>>
        ELSE Catch(outcome.err)

Complete(outcome) ==
    \E strict \in BOOLEAN :
        LET final == Finalize(outcome, strict) IN
        IF outcome.ok /\ final.ok
        THEN /\ report' = final.report
             /\ pc' = "returned"
             /\ UNCHANGED <<idx, errors, thrown>>
        ELSE Catch(IF outcome.ok THEN TypeError ELSE outcome.err)

\* The awaited API call throws.
ApiFails(err) ==
    /\ pc = "await"
    /\ inflight' = {}
    /\ lastResponse' = [kind |-> "error", text |-> <<>>, err |-> err]
    /\ Complete(Raised(err))
    /\ UNCHANGED <<config, options, allowFallback, providers, calls>>

\* chat.completions.create resolves with `content` as the first choice's
\* message content (<<>>: none).
OpenAIResponds(content) ==
    /\ pc = "await"
    /\ inflight = {"openai"}
    /\ inflight' = {}
    /\ lastResponse' = [kind |-> "content", text |-> content, err |-> NoError]
    /\ Complete(IF build = "apps" THEN ParseOpenAIContentApps(content)
                ELSE ParseOpenAIContent(content))
    /\ UNCHANGED <<config, options, allowFallback, providers, calls>>

\* messages.create resolves; isText: its first piece exists and is text.
AnthropicResponds(isText, text) ==
    /\ pc = "await"
    /\ inflight = {"anthropic"}
    /\ inflight' = {}
    /\ lastResponse' = [kind |-> IF isText THEN "content" ELSE "nontext",
                        text |-> text, err |-> NoError]
    /\ Complete(ParseAnthropicPiece(isText, text))
    /\ UNCHANGED <<config, options, allowFallback, providers, calls>>

\* What a run of the service alone leaves as it is.
besideService ==
    <<repairVars, finalizeVars, normalizerVars, promptVars, routeVars, laterVars>>

Next ==
    \/ /\ \E m \in Models, f \in FallbackOptions, n \in FileNames,
              z \in FileSizes : ExtractData(m, f, n, z)
       /\ UNCHANGED besideService
    \/ Invoke /\ UNCHANGED besideService
    \/ (\E e \in ApiErrors : ApiFails(e)) /\ UNCHANGED besideService
    \/ (\E t \in ResponseTexts : OpenAIResponds(t)) /\ UNCHANGED besideService
    \/ (\E t \in ResponseTexts : AnthropicResponds(TRUE, t))
       /\ UNCHANGED besideService
    \/ AnthropicResponds(FALSE, <<>>) /\ UNCHANGED besideService

Spec == Init /\ [][Next]_vars

\* ------------------------------------- the repair of truncated JSON
\* extractWithOpenAI of the enhanced service applied to a document that
\* lost its tail on the way.
RepairDocuments ==
    Documents
    \cup { Obj(<<Member("goals", Arr(<<Arr(<<Num(<<"1">>)>>)>>))>>),
           Obj(<<Member("goals", Obj(<<Member("id", Obj(<<>>))>>))>>),
           Obj(<<Member("goals", Arr(<<>>)), Member("id", Arr(<<Null>>))>>) }

RepairInit ==
    /\ build = "enhanced"
    /\ haveOpenAI = TRUE
    /\ haveAnthropic = FALSE
    /\ ServiceIdle
    /\ FinalizeIdle
    /\ NormalizerIdle
    /\ PromptIdle
    /\ RouteIdle
    /\ ConcurrentIdle
    /\ AppIdle
    /\ original \in RepairDocuments
    /\ raw = Stringify(original)
    /\ recovered = Raised(NoError)
    /\ rpc = "complete"

serviceVars == <<build, haveOpenAI, haveAnthropic, pc, options, allowFallback,
                 providers, idx,
                 errors, inflight, calls, lastResponse, report, thrown>>

\* The response is cut: its last m lexemes never arrive.
Truncate(m) ==
    /\ rpc = "complete"
    /\ raw' = SubSeq(raw, 1, Len(raw) - m)
    /\ rpc' = "truncated"
    /\ UNCHANGED <<serviceVars, original, recovered>>

Recover ==
    /\ rpc \in {"complete", "truncated"}
    /\ recovered' = ParseOpenAIContent(raw)
    /\ rpc' = "recovered"
    /\ UNCHANGED <<serviceVars, original, raw>>

besideRepair == <<finalizeVars, normalizerVars, promptVars, routeVars, laterVars>>

RepairNext ==
    \/ (\E m \in 1..(Len(raw) - 1) : Truncate(m)) /\ UNCHANGED besideRepair
    \/ Recover /\ UNCHANGED besideRepair

SpecRepair == RepairInit /\ [][RepairNext]_vars

\* ------------------------------------------ finalizing a response
\* structureResponse applied to the value a provider call returned: records
\* as the requested schema has them, with an identifier that is absent,
\* empty, or shared with another record.
Title == Member("title", Str("Reduce sediment"))

FinalizeRecords ==
    { Obj(<<Title>>),
      Obj(<<Member("id", Str("")), Title>>),
      Obj(<<Member("id", Str("goal-1")), Title>>),
      Obj(<<Member("id", Str("goal-1")), Member("status", Str("completed"))>>),
      Obj(<<Member("status", Str("completed")), Title>>),
      Obj(<<Member("id", Str("goal-2")), Member("status", Str("planned"))>>) }

FinalizeInputs ==
    { Obj(<<>>) }
    \cup { Obj(<<Member("goals", Arr(gs)), Member("bmps", Arr(bs))>>) :
              gs \in UNION {[1..m -> FinalizeRecords] : m \in 0..MaxGoals},
              bs \in {<<>>, <<Obj(<<Title>>)>>} }

FinalizeInit ==
    /\ build = "enhanced"
    /\ haveOpenAI = TRUE
    /\ haveAnthropic = TRUE
    /\ ServiceIdle
    /\ RepairIdle
    /\ NormalizerIdle
    /\ PromptIdle
    /\ RouteIdle
    /\ ConcurrentIdle
    /\ AppIdle
    /\ extractedData \in FinalizeInputs
    /\ finalized = NotFinalized

StructureResponse(providerUsed, strict) ==
    LET r == structureResponse(extractedData, "plan.pdf", 1024, providerUsed,
                               build, strict) IN
    /\ ~finalized.done
    /\ finalized' = [done |-> TRUE, ok |-> r.ok, report |-> r.report]
    /\ UNCHANGED <<serviceVars, repairVars, normalizerVars, promptVars, routeVars,
                   laterVars, extractedData>>

FinalizeNext ==
    \E providerUsed \in {"openai", "anthropic"}, strict \in BOOLEAN :
        StructureResponse(providerUsed, strict)

SpecFinalize == FinalizeInit /\ [][FinalizeNext]_vars

\* ------------------------------------------------------- PDFProcessor
\* A document text is a sequence of characters.  The page marker that
\* combineWithPageMarkers inserts is three elements: "=== PAGE ", the page
\* number and " ===".
Whitespace == {" ", "\t", "\n", "\f", "\r"}

Digits == {"0", "1", "2", "3", "4", "5", "6", "7", "8", "9"}

Letters ==
    {"a", "c", "d", "e", "f", "g", "h", "i", "l", "m", "n", "o", "p", "r",
     "s", "t", "w", "y", "W"}

\* \w
WordChars == Letters \cup Digits \cup {"_"}

Lower(ch) == IF ch = "W" THEN "w" ELSE ch

\* The first position from i on whose character is outside `set`.
RECURSIVE RunEnd(_, _, _)
RunEnd(t, i, set) ==
    IF i <= Len(t) /\ t[i] \in set THEN RunEnd(t, i + 1, set) ELSE i

\* String.prototype.trim
RECURSIVE TrimStart(_)
TrimStart(t) ==
    IF t # <<>> /\ Head(t) \in Whitespace THEN TrimStart(Tail(t)) ELSE t

RECURSIVE TrimEnd(_)
TrimEnd(t) ==
    IF t # <<>> /\ t[Len(t)] \in Whitespace
    THEN TrimEnd(SubSeq(t, 1, Len(t) - 1))
    ELSE t

TrimText(t) == TrimEnd(TrimStart(t))

\* .replace(/(\w+)-\n+(\w+)/g, '$1$2'): a match takes the whole word on
\* either side, and the search goes on after the second word.
RECURSIVE JoinHyphenated(_, _)
JoinHyphenated(t, i) ==
    IF i > Len(t) THEN <<>>
    ELSE IF t[i] \notin WordChars THEN <<t[i]>> \o JoinHyphenated(t, i + 1)
    ELSE LET j == RunEnd(t, i, WordChars)
             k == RunEnd(t, j + 1, {"\n"})
             m == RunEnd(t, k, WordChars)
         IN IF j <= Len(t) /\ t[j] = "-" /\ k > j + 1 /\ m > k
            THEN SubSeq(t, i, j - 1) \o SubSeq(t, k, m - 1) \o JoinHyphenated(t, m)
            ELSE SubSeq(t, i, j - 1) \o JoinHyphenated(t, j)

\* The word, whatever its case, stands at position i.
MatchesAt(t, i, word) ==
    /\ i + Len(word) - 1 <= Len(t)
    /\ \A j \in 1..Len(word) : Lower(t[i + j - 1]) = word[j]

\* .replace(/first-\s*\n+\s*second/gi, 'firstsecond')
RECURSIVE ReplaceBroken(_, _, _, _)
ReplaceBroken(t, i, first, second) ==
    IF i > Len(t) THEN <<>>
    ELSE LET h == i + Len(first)
             k == RunEnd(t, h + 1, Whitespace)
         IN IF /\ MatchesAt(t, i, first)
               /\ h <= Len(t)
               /\ t[h] = "-"
               /\ \E j \in (h + 1)..(k - 1) : t[j] = "\n"
               /\ MatchesAt(t, k, second)
            THEN first \o second \o ReplaceBroken(t, k + Len(second), first, second)
            ELSE <<t[i]>> \o ReplaceBroken(t, i + 1, first, second)

\* .replace(/\n{4,}/g, '\n\n\n')
RECURSIVE CapNewlines(_, _)
CapNewlines(t, i) ==
    IF i > Len(t) THEN <<>>
    ELSE IF t[i] # "\n" THEN <<t[i]>> \o CapNewlines(t, i + 1)
    ELSE LET j == RunEnd(t, i, {"\n"})
         IN (IF j - i >= 4 THEN <<"\n", "\n", "\n">> ELSE SubSeq(t, i, j - 1))
            \o CapNewlines(t, j)

\* .replace(/[ \t]+/g, ' ')
RECURSIVE CollapseBlanks(_, _)
CollapseBlanks(t, i) ==
    IF i > Len(t) THEN <<>>
    ELSE IF t[i] \notin {" ", "\t"} THEN <<t[i]>> \o CollapseBlanks(t, i + 1)
    ELSE <<" ">> \o CollapseBlanks(t, RunEnd(t, i, {" ", "\t"}))

Water == <<"w", "a", "t", "e", "r">>
Shed == <<"s", "h", "e", "d">>
Non == <<"n", "o", "n">>
Point == <<"p", "o", "i", "n", "t">>

\* const cleanedText of fallbackPageExtraction
CleanedText(text) ==
    TrimText(CollapseBlanks(CapNewlines(
        ReplaceBroken(ReplaceBroken(JoinHyphenated(text, 1), 1, Water, Shed),
                      1, Non, Point), 1), 1))

\* cleanText of the copy under apps/backend:
\* .replace(/\s+/g, ' ').replace(/[\f\r]/g, '').replace(/\n{3,}/g, '\n\n').trim()
RECURSIVE CollapseWhitespace(_, _)
CollapseWhitespace(t, i) ==
    IF i > Len(t) THEN <<>>
    ELSE IF t[i] \notin Whitespace THEN <<t[i]>> \o CollapseWhitespace(t, i + 1)
    ELSE <<" ">> \o CollapseWhitespace(t, RunEnd(t, i, Whitespace))

RECURSIVE CapNewlinesAtTwo(_, _)
CapNewlinesAtTwo(t, i) ==
    IF i > Len(t) THEN <<>>
    ELSE IF t[i] # "\n" THEN <<t[i]>> \o CapNewlinesAtTwo(t, i + 1)
    ELSE LET j == RunEnd(t, i, {"\n"})
         IN (IF j - i >= 3 THEN <<"\n", "\n">> ELSE SubSeq(t, i, j - 1))
            \o CapNewlinesAtTwo(t, j)

cleanText(text) ==
    TrimText(CapNewlinesAtTwo(
        SelectSeq(CollapseWhitespace(text, 1), LAMBDA ch : ch \notin {"\f", "\r"}), 1))

\* text.split('\n') and lines.join('\n')
RECURSIVE SplitLines(_, _, _)
SplitLines(t, i, line) ==
    IF i > Len(t) THEN <<line>>
    ELSE IF t[i] = "\n" THEN <<line>> \o SplitLines(t, i + 1, <<>>)
    ELSE SplitLines(t, i + 1, Append(line, t[i]))

RECURSIVE JoinLines(_)
JoinLines(lines) ==
    IF lines = <<>> THEN <<>>
    ELSE IF Len(lines) = 1 THEN lines[1]
    ELSE lines[1] \o <<"\n">> \o JoinLines(Tail(lines))

\* The eight patterns of removeHeadersFooters, on a trimmed line.
IsWordLine(l, word) == Len(l) = Len(word) /\ MatchesAt(l, 1, word)

IsDigitsLine(l) == l # <<>> /\ \A j \in 1..Len(l) : l[j] \in Digits

\* The trimmed line without `word` and the whitespace after it; <<>> when
\* the line does not start with the word and whitespace, or ends there.
AfterWord(l, word) ==
    LET k == RunEnd(l, Len(word) + 1, Whitespace)
    IN IF MatchesAt(l, 1, word) /\ k > Len(word) + 1 /\ k <= Len(l)
       THEN SubSeq(l, k, Len(l))
       ELSE <<>>

IsHeaderFooter(l) ==
    \/ IsDigitsLine(AfterWord(l, <<"p", "a", "g", "e">>))
    \/ IsDigitsLine(l)
    \/ IsWordLine(l, <<"d", "r", "a", "f", "t">>)
    \/ IsWordLine(l, <<"f", "i", "n", "a", "l">>)
    \/ LET rest == AfterWord(l, Water \o Shed)
       IN \/ IsWordLine(rest, <<"p", "l", "a", "n">>)
          \/ IsWordLine(rest, <<"m", "a", "n", "a", "g", "e", "m", "e", "n", "t">>)
          \/ IsWordLine(rest, <<"s", "t", "r", "a", "t", "e", "g", "y">>)
    \/ (Len(l) = 4 /\ IsDigitsLine(l))
    \/ IsDigitsLine(AfterWord(l, <<"c", "h", "a", "p", "t", "e", "r">>))
    \/ IsDigitsLine(AfterWord(l, <<"s", "e", "c", "t", "i", "o", "n">>))

removeHeadersFooters(text) ==
    LET lines == SplitLines(text, 1, <<>>)
        Keeps(index) ==
            \/ TrimText(lines[index + 1]) = <<>>
            \/ ~IsHeaderFooter(TrimText(lines[index + 1]))
            \/ ~(index < 3 \/ index >= Len(lines) - 3)
        kept == {index \in 0..(Len(lines) - 1) : Keeps(index)}
        Filter[index \in 0..Len(lines)] ==
            IF index = Len(lines) THEN <<>>
            ELSE (IF index \in kept THEN <<lines[index + 1]>> ELSE <<>>)
                 \o Filter[index + 1]
    IN IF Len(lines) < 5 THEN text ELSE JoinLines(Filter[0])

cleanPageText(text) == TrimText(CapNewlines(removeHeadersFooters(text), 1))

\* String.prototype.substring: both ends clamped, swapped when reversed.
Clamp(t, p) == IF p < 0 THEN 0 ELSE IF p > Len(t) THEN Len(t) ELSE p

Substring(t, from, to) ==
    LET a == Clamp(t, from)
        b == Clamp(t, to)
    IN IF a <= b THEN SubSeq(t, a + 1, b) ELSE SubSeq(t, b + 1, a)

\* n newlines stand at the (0-based) position p.
NewlinesAt(t, p, n) == p + n <= Len(t) /\ \A j \in 1..n : t[p + j] = "\n"

Least(set) == CHOOSE p \in set : \A q \in set : p <= q
Greatest(set) == CHOOSE p \in set : \A q \in set : q <= p

\* cleanedText.indexOf('\n' x n, from) and cleanedText.lastIndexOf('\n' x n, from)
IndexOf(t, n, from) ==
    LET found == {p \in from..Len(t) : NewlinesAt(t, p, n)}
    IN IF found = {} THEN -1 ELSE Least(found)

LastIndexOf(t, n, from) ==
    LET found == {p \in 0..from : NewlinesAt(t, p, n)}
    IN IF found = {} THEN -1 ELSE Greatest(found)

\* The loop with each page starting one character after the previous end.
RECURSIVE PageLoopSkipping(_, _, _, _, _)
PageLoopSkipping(t, numPages, i, start, segments) ==
    IF i >= numPages THEN segments
    ELSE LET avgPageLength == Len(t) \div numPages
             end == IF i < numPages - 1 THEN start + avgPageLength ELSE Len(t)
             pageText == TrimText(Substring(t, start + 1, end))
         IN PageLoopSkipping(t, numPages, i + 1, end,
                             IF pageText # <<>> THEN Append(segments, pageText)
                             ELSE segments)

\* The for loop of fallbackPageExtraction from page i (0-based) on: the
\* non-empty pageText values in order, each of which the loop hands to
\* cleanPageText and pushes.  The thresholds avgPageLength * 0.4 and
\* avgPageLength * 0.3 are compared as tenths, which is exact for the
\* lengths reached here.
RECURSIVE PageLoop(_, _, _, _, _)
PageLoop(t, numPages, i, start, segments) ==
    IF i >= numPages THEN segments
    ELSE LET avgPageLength == Len(t) \div numPages
             guess == start + avgPageLength
             nextDoubleNewline == IndexOf(t, 2, guess)
             prevDoubleNewline == LastIndexOf(t, 2, guess)
             nextNewline == IndexOf(t, 1, guess)
             prevNewline == LastIndexOf(t, 1, guess)
             end == IF i < numPages - 1
                    THEN IF /\ nextDoubleNewline # -1
                            /\ 10 * (nextDoubleNewline - guess) < 4 * avgPageLength
                         THEN nextDoubleNewline
                         ELSE IF /\ prevDoubleNewline # -1
                                 /\ 10 * (guess - prevDoubleNewline) < 4 * avgPageLength
                         THEN prevDoubleNewline
                         ELSE IF /\ nextNewline # -1
                                 /\ 10 * (nextNewline - guess) < 3 * avgPageLength
                         THEN nextNewline
                         ELSE IF /\ prevNewline # -1
                                 /\ 10 * (guess - prevNewline) < 3 * avgPageLength
                         THEN prevNewline
                         ELSE guess
                    ELSE Len(t)
             pageText == TrimText(Substring(t, start, end))
         IN PageLoop(t, numPages, i + 1, end,
                     IF pageText # <<>> THEN Append(segments, pageText)
                     ELSE segments)

\* The page texts before cleanPageText.
PageSegments(text, numPages) ==
    IF numPages <= 1 THEN <<CleanedText(text)>>
    ELSE PageLoop(CleanedText(text), numPages, 0, 0, <<>>)

\* fallbackPageExtraction after its own pdfParse of the same buffer
fallbackPageExtraction(text, numPages) ==
    IF TrimText(text) = <<>> THEN <<>>
    ELSE LET segments == PageSegments(text, numPages)
         IN [j \in 1..Len(segments) |-> cleanPageText(segments[j])]

DigitOf(n) == <<"0", "1", "2", "3", "4", "5", "6", "7", "8", "9">>[n + 1]

RECURSIVE Decimal(_)
Decimal(n) == IF n < 10 THEN <<DigitOf(n)>> ELSE Decimal(n \div 10) \o <<DigitOf(n % 10)>>

PageMarker(n) == <<"=== PAGE ">> \o Decimal(n) \o <<" ===">>

RECURSIVE CombineFrom(_, _)
CombineFrom(pageTexts, index) ==
    IF index >= Len(pageTexts) THEN <<>>
    ELSE (IF index > 0 THEN <<"\n", "\n">> ELSE <<>>)
         \o PageMarker(index + 1) \o <<"\n">> \o pageTexts[index + 1]
         \o CombineFrom(pageTexts, index + 1)

combineWithPageMarkers(pageTexts) == CombineFrom(pageTexts, 0)

\* message.includes(word), a message being a sequence of pieces
Includes(message, word) == \E j \in 1..Len(message) : message[j] = word

\* The catch block of extractText; isError is `error instanceof Error`.
CatchParse(isError, err) ==
    IF isError /\ Includes(err.message, "Invalid PDF")
    THEN createError(<<"Invalid PDF file format">>, 400)
    ELSE IF isError /\ Includes(err.message, "Password")
    THEN createError(<<"Password-protected PDFs are not supported">>, 400)
    ELSE IF isError /\ Includes(err.message, "Corrupt")
    THEN createError(<<"PDF file appears to be corrupted">>, 400)
    ELSE createError(<<"Failed to process PDF file">>, 500)

EmptyPdfError ==
    createError(<<"PDF appears to be empty or contains no extractable text">>, 400)

Failed(err) ==
    [done |-> TRUE, ok |-> FALSE, err |-> err, text |-> <<>>, pageTexts |-> <<>>,
     pages |-> 0]

\* extractText of the copy named by b, given what pdfParse made of the
\* buffer.  The copy under apps/backend has no pageTexts.
extractText(d, b) ==
    IF d.failed THEN Failed(CatchParse(d.isError, d.err))
    ELSE IF TrimText(d.text) = <<>> THEN Failed(CatchParse(TRUE, EmptyPdfError))
    ELSE IF b = "apps"
    THEN [done |-> TRUE, ok |-> TRUE, err |-> NoError, text |-> cleanText(d.text),
          pageTexts |-> <<>>, pages |-> d.numpages]
    ELSE LET pageTexts == fallbackPageExtraction(d.text, d.numpages)
         IN [done |-> TRUE, ok |-> TRUE, err |-> NoError,
             text |-> combineWithPageMarkers(pageTexts),
             pageTexts |-> pageTexts, pages |-> d.numpages]

\* What pdfParse hands back: texts put together from a few pieces, texts of
\* five lines, and two hyphenated terms inside a sentence.
RECURSIVE Flatten(_)
Flatten(pieces) == IF pieces = <<>> THEN <<>> ELSE Head(pieces) \o Flatten(Tail(pieces))

TextPieces == {Water, Shed, <<"-">>, <<"\n">>, <<" ">>, <<"1">>}

LineChoices == {<<"1">>, Shed, <<>>}

SampleTexts ==
    { Non \o <<"-", "\n">> \o Point,
      Shed \o <<" ">> \o Non \o <<"-", "\n">> \o Point \o <<" ">> \o Shed,
      <<"W">> \o Tail(Water) \o <<"-", " ", "\n">> \o Shed,
      <<"d", "r", "a", "f", "t", "\n">> \o Shed \o <<"\n", "\n", "\n", "\n", "\n">> \o Shed,
      <<"\t", "\n">>,
      Water \o <<"\f">> \o Shed,
      Water \o <<"\r", "\n">> \o Shed }

ParsedTexts ==
    { Flatten(ps) : ps \in UNION {[1..m -> TextPieces] : m \in 0..MaxPieces} }
    \cup { JoinLines(ls) : ls \in [1..5 -> LineChoices] }
    \cup SampleTexts

ParsedData(text, numpages) ==
    [failed |-> FALSE, isError |-> FALSE, err |-> NoError, text |-> text,
     numpages |-> numpages]

\* The exceptions pdfParse raises are the library's; the catch block looks
\* for three words in their message.
ParseFailures ==
    { [failed |-> TRUE, isError |-> e, err |-> Thrown(m, 0), text |-> <<>>,
       numpages |-> 0] :
          e \in BOOLEAN,
          m \in { <<"Invalid PDF", " structure">>, <<"No password given">>,
                  <<"Incorrect ", "Password">>, <<"Corrupt", "ed stream">>,
                  <<"bad XRef entry">> } }

NormalizerInit ==
    /\ build \in {"enhanced", "apps"}
    /\ haveOpenAI = TRUE
    /\ haveAnthropic = TRUE
    /\ ServiceIdle
    /\ RepairIdle
    /\ FinalizeIdle
    /\ PromptIdle
    /\ RouteIdle
    /\ ConcurrentIdle
    /\ AppIdle
    /\ data \in ParseFailures
                \cup { ParsedData(t, n) :
                          t \in ParsedTexts,
                          n \in IF build = "apps" THEN {1} ELSE 0..MaxPages }
    /\ pdfContent = NoContent

ExtractText ==
    /\ ~pdfContent.done
    /\ pdfContent' = extractText(data, build)
    /\ UNCHANGED <<serviceVars, repairVars, finalizeVars, promptVars, routeVars,
                   laterVars, data>>

NormalizerNext == ExtractText

SpecNormalizer == NormalizerInit /\ [][NormalizerNext]_vars

\* ------------------------------------------------ the prompt text
\* A document text is taken by its length; text.substring(0, n) is its
\* first n characters, all of them when it has fewer.
PromptBudget(b) == IF b = "apps" THEN 15000 ELSE 16000

\* buildExtractionPrompt: the page count of the banner (0 without a
\* banner), the number of leading characters of the text it embeds, and
\* whether "...[truncated]" follows them.
buildExtractionPrompt(length, pages, b) ==
    [built |-> TRUE,
     banner |-> IF b # "apps" /\ pages > 0 THEN pages ELSE 0,
     embedded |-> IF length > PromptBudget(b) THEN PromptBudget(b) ELSE length,
     truncated |-> length > PromptBudget(b)]

PromptLengths ==
    (0..Margin) \cup ((15000 - Margin)..(15000 + Margin))
    \cup ((16000 - Margin)..(16000 + Margin))

\* The text that combineWithPageMarkers makes of page texts, by lengths:
\* "=== PAGE k ===" and a newline before each page text, two newlines
\* between pages.
MarkerLength(k) == 9 + Len(Decimal(k)) + 4

\* Where the marker of page k ends in the combined text.
RECURSIVE MarkerEnd(_, _)
MarkerEnd(pageLengths, k) ==
    IF k = 1 THEN MarkerLength(1)
    ELSE MarkerEnd(pageLengths, k - 1) + 1 + pageLengths[k - 1] + 2 + MarkerLength(k)

CombinedLength(pageLengths) ==
    IF pageLengths = <<>> THEN 0
    ELSE MarkerEnd(pageLengths, Len(pageLengths)) + 1 + pageLengths[Len(pageLengths)]

\* Page texts whose second marker falls around the end of the budget.
PageLengths ==
    (1..Margin) \cup ((15969 - Margin)..(15969 + Margin))

\* extractData hands buildExtractionPrompt content.text and
\* content.pageTexts; the copy under apps/backend has no pageTexts.
PromptDocuments(b) ==
    { [length |-> n, pages |-> 0, pageLengths |-> <<>>] : n \in PromptLengths }
    \cup (IF b = "apps" THEN {}
          ELSE { [length |-> CombinedLength(ls), pages |-> Len(ls), pageLengths |-> ls] :
                    ls \in UNION { [1..m -> PageLengths] : m \in 1..2 } })

PromptInit ==
    /\ build \in {"enhanced", "apps"}
    /\ haveOpenAI = TRUE
    /\ haveAnthropic = TRUE
    /\ ServiceIdle
    /\ RepairIdle
    /\ FinalizeIdle
    /\ NormalizerIdle
    /\ RouteIdle
    /\ ConcurrentIdle
    /\ AppIdle
    /\ document \in PromptDocuments(build)
    /\ prompt = NoPrompt

BuildPrompt ==
    /\ ~prompt.built
    /\ prompt' = buildExtractionPrompt(document.length, document.pages, build)
    /\ UNCHANGED <<serviceVars, repairVars, finalizeVars, normalizerVars, routeVars,
                   laterVars, document>>

PromptNext == BuildPrompt

SpecPrompt == PromptInit /\ [][PromptNext]_vars

\* ------------------------------------------------ POST /api/extract
\* One request through upload.single("pdf") and the handler.  The copy of
\* the handler under apps/backend runs with the services under
\* apps/backend, the other copy with the other services.
PdfMime == "application/pdf"

\* req.body.model || undefined: a missing or empty field is "unset"; a
\* field of "openai" plans as a missing one does.
RouteModels == {"unset", "anthropic", "other"}

Requests ==
    { NoRequest }
    \cup [file : {TRUE}, mimetype : {PdfMime, "text/plain"}, oversized : BOOLEAN,
          signature : BOOLEAN, encryptMarker : BOOLEAN, model : RouteModels]

\* A document of page numbers only.
PageNumbersOnly == ParsedData(<<"1", "\n", "1", "\n", "\n", "\n", "1">>, 1)

\* What pdfParse makes of an upload that got as far as extractText.
RouteData ==
    ParseFailures
    \cup { ParsedData(<<>>, 0), ParsedData(<<"\t", "\n">>, 1), ParsedData(Shed, 1),
           PageNumbersOnly }

\* pdfParse asks for a password only when the bytes hold an encryption
\* dictionary; a document encrypted with an empty user password is read as
\* any other is.
PasswordFailures ==
    { d \in ParseFailures :
          d.err.message \in {<<"No password given">>, <<"Incorrect ", "Password">>} }

Uploads ==
    { u \in Requests \X RouteData :
        /\ u[2] = PageNumbersOnly => u[1].model = "unset"
        /\ u[2] \in PasswordFailures => u[1].encryptMarker
        /\ u[1].encryptMarker =>
               \/ u[2] \in PasswordFailures
               \/ u[2] = ParsedData(Shed, 1) /\ u[1].model = "unset" }

\* multer's own error for a file over limits.fileSize
FileTooLarge == Thrown(<<"File too large">>, 0)

Rejected(err) == [ok |-> FALSE, report |-> NoReport, err |-> err]

\* allowFallback as the handler passes it: false under apps/backend, absent
\* in the other copy.
RouteFallback(b) == IF b = "apps" THEN "false" ELSE "unset"

RouteInit ==
    /\ build \in {"enhanced", "apps"}
    /\ haveOpenAI \in BOOLEAN
    /\ haveAnthropic \in BOOLEAN
    /\ haveOpenAI \/ haveAnthropic
    /\ ServiceIdle
    /\ RepairIdle
    /\ FinalizeIdle
    /\ NormalizerIdle
    /\ PromptIdle
    /\ RouteIdle
    /\ ConcurrentIdle
    /\ AppIdle

\* The request arrives: multer's fileFilter and size limit, then the
\* handler up to its await of extractText.
Post(req, parsed) ==
    /\ route = "none"
    /\ request' = req
    /\ IF req.file /\ req.mimetype # PdfMime
       THEN /\ response' = Rejected(createError(<<"Only PDF files are allowed">>, 400))
            /\ route' = "responded"
            /\ UNCHANGED data
       ELSE IF req.file /\ req.oversized
       THEN /\ response' = Rejected(FileTooLarge)
            /\ route' = "responded"
            /\ UNCHANGED data
       ELSE IF ~req.file
       THEN /\ response' = Rejected(createError(<<"No PDF file provided">>, 400))
            /\ route' = "responded"
            /\ UNCHANGED data
       ELSE IF ~req.signature
       THEN /\ response' = Rejected(createError(<<"Invalid PDF file format">>, 400))
            /\ route' = "responded"
            /\ UNCHANGED data
       ELSE /\ data' = parsed
            /\ route' = "parsing"
            /\ UNCHANGED response
    /\ UNCHANGED <<serviceVars, pdfContent>>

\* extractText settles; on success the handler calls extractData, which
\* runs up to its first await.
Extract ==
    /\ route = "parsing"
    /\ pdfContent' = extractText(data, build)
    /\ IF pdfContent'.ok
       THEN /\ \E n \in FileNames, z \in FileSizes :
                   ExtractData(request.model, RouteFallback(build), n, z)
            /\ route' = "extracting"
            /\ UNCHANGED response
       ELSE /\ response' = Rejected(pdfContent'.err)
            /\ route' = "responded"
            /\ UNCHANGED serviceVars
    /\ UNCHANGED <<request, data>>

\* extractData settles: res.json(extractedReport), or the error goes on to
\* the error handler.
Respond ==
    /\ route = "extracting"
    /\ pc \in {"returned", "thrown"}
    /\ response' = IF pc = "returned"
                   THEN [ok |-> TRUE, report |-> report, err |-> NoError]
                   ELSE Rejected(thrown)
    /\ route' = "responded"
    /\ UNCHANGED <<serviceVars, request, data, pdfContent>>

besideRoute == <<repairVars, finalizeVars, promptVars, laterVars>>

\* The steps of a provider call leave the request and the parsed document
\* as they are.
duringCall == <<besideRoute, routeVars, normalizerVars>>

RouteNext ==
    \/ (\E u \in Uploads : Post(u[1], u[2])) /\ UNCHANGED besideRoute
    \/ Extract /\ UNCHANGED besideRoute
    \/ Invoke /\ UNCHANGED duringCall
    \/ (\E e \in ApiErrors : ApiFails(e)) /\ UNCHANGED duringCall
    \/ (\E t \in ResponseTexts : OpenAIResponds(t)) /\ UNCHANGED duringCall
    \/ (\E t \in ResponseTexts : AnthropicResponds(TRUE, t))
       /\ UNCHANGED duringCall
    \/ AnthropicResponds(FALSE, <<>>) /\ UNCHANGED duringCall
    \/ Respond /\ UNCHANGED besideRoute

SpecRoute == RouteInit /\ [][RouteNext]_vars

\* ------------------------------------------- requests served together
\* Two requests in one process.  A handler runs alone from one await to the
\* next, so a step is the stretch of one request between two awaits; the
\* history of a frame is what its own provider calls handed back.
CallOutcomes ==
    { Raised(Thrown(<<"401 Incorrect API key provided">>, 401)),
      Returned(Obj(<<Member("goals", Arr(<<Obj(<<Member("id", Str("goals"))>>)>>))>>)),
      Returned(Obj(<<Member("goals", Num(<<"1">>))>>)) }

\* One list of failures kept on the shared instance.
RecordedOnInstance(fs, c, entry) ==
    LET other == CHOOSE d \in Clients : d # c
    IN Append(fs[other].errors \o fs[c].errors, entry)

\* errors.push(`${provider}: ${pretty}`): errors is a local of the call.
Recorded(fs, c, entry) == Append(fs[c].errors, entry)

\* extractData up to the loop, for the options the handler passes.
PlannedFrame(model) ==
    [NoFrame EXCEPT
        !.pc = "loop",
        !.model = model,
        !.providers = planProviders(model, AllowFallback(RouteFallback(build)),
                                    haveOpenAI, haveAnthropic),
        !.idx = 1]

\* The loop from the top of an iteration to its await, or to the throw
\* after the last provider.
RECURSIVE Iterate(_)
Iterate(f) ==
    IF f.idx > Len(f.providers)
    THEN [f EXCEPT !.pc = "thrown", !.thrown = ExhaustedError(f.errors)]
    ELSE IF Configured(Backend(f.providers[f.idx]))
    THEN [f EXCEPT !.pc = "await", !.calls = Append(@, Backend(f.providers[f.idx]))]
    ELSE Iterate([f EXCEPT
                     !.errors = Append(@, ErrorEntry(f.providers[f.idx],
                                   createError(IF Backend(f.providers[f.idx]) = "openai"
                                               THEN <<"OpenAI not configured">>
                                               ELSE <<"Anthropic not configured">>, 500))),
                     !.idx = @ + 1])

\* The entry the catch block makes of a failed attempt.
FailureOf(f, outcome) ==
    ErrorEntry(f.providers[f.idx], IF outcome.ok THEN TypeError ELSE outcome.err)

\* The await resumes with `outcome`: structureResponse and return, or the
\* catch block, which leaves `recorded` as the list of failures, and the
\* next iteration.
Resume(f, recorded, outcome, strict) ==
    LET final == structureResponse(outcome.val, "plan.pdf", 1024, f.providers[f.idx],
                                   build, strict)
        g == [f EXCEPT !.history = Append(@, [outcome |-> outcome, strict |-> strict])]
    IN IF outcome.ok /\ final.ok
       THEN [g EXCEPT !.pc = "returned", !.report = final.report]
       ELSE Iterate([g EXCEPT !.errors = recorded, !.idx = @ + 1])

ConcurrentInit ==
    /\ build \in {"enhanced", "apps"}
    /\ haveOpenAI \in BOOLEAN
    /\ haveAnthropic \in BOOLEAN
    /\ haveOpenAI \/ haveAnthropic
    /\ ServiceIdle
    /\ RepairIdle
    /\ FinalizeIdle
    /\ NormalizerIdle
    /\ PromptIdle
    /\ RouteIdle
    /\ ConcurrentIdle
    /\ AppIdle

besideConcurrent ==
    <<serviceVars, repairVars, finalizeVars, normalizerVars, promptVars, routeVars,
      uiVars>>

\* The handler of client c reaches extractData: the instance is created if
\* there is none, and the call runs up to its first await.
Enter(c, model) ==
    /\ frames[c].pc = "idle"
    /\ llmService' = TRUE
    /\ frames' = [frames EXCEPT ![c] = Iterate(PlannedFrame(model))]

\* The provider call of client c settles.
Settles(c, outcome, strict) ==
    /\ frames[c].pc = "await"
    /\ frames' = [frames EXCEPT ![c] =
                     Resume(frames[c],
                            Recorded(frames, c, FailureOf(frames[c], outcome)),
                            outcome, strict)]
    /\ UNCHANGED llmService

ConcurrentNext ==
    \/ (\E c \in Clients, m \in RouteModels : Enter(c, m))
       /\ UNCHANGED besideConcurrent
    \/ (\E c \in Clients, o \in CallOutcomes, strict \in BOOLEAN : Settles(c, o, strict))
       /\ UNCHANGED besideConcurrent

SpecConcurrent == ConcurrentInit /\ [][ConcurrentNext]_vars

\* ------------------------------------------------------- the frontend
\* App and the PDFUpload it renders.  A component that is not rendered is
\* unmounted and its useState cells are gone; mounted again it starts from
\* their initial values.  `pending.settled` is the record of the uploads
\* that came back, kept for the checks only.
Files ==
    { [name |-> "plan.pdf", type |-> "application/pdf"],
      [name |-> "scan.pdf", type |-> ""] }

\* The messages onDrop makes of a rejection.
RejectionMessages ==
    { "Invalid file format. Only PDF files are supported.",
      "File too large. Maximum size is 100MB" }

\* error.message of what uploadAndProcessPDF throws
UploadFailure == "Failed to process PDF: Request failed"

\* handleProcessingStart that leaves isProcessing as it is.
handleProcessingStartIdle(a) ==
    [a EXCEPT !.extractedData = "", !.errorMessage = ""]

handleProcessingStart(a) ==
    [extractedData |-> "", isProcessing |-> TRUE, errorMessage |-> ""]

handleFileProcessed(a, reportOf) ==
    [extractedData |-> reportOf, isProcessing |-> FALSE, errorMessage |-> ""]

handleProcessingError(a, error) ==
    [a EXCEPT !.isProcessing = FALSE, !.errorMessage = error]

\* The third branch of the render: PDFUpload is on the page.
Mounted(a) == ~a.isProcessing /\ a.extractedData = ""

\* selectedFile of the PDFUpload on the page after a render of App.
Rendered(before, after, selected) ==
    IF Mounted(before) /\ Mounted(after) THEN selected ELSE NoFile

AppInit ==
    /\ build = "enhanced"
    /\ haveOpenAI = TRUE
    /\ haveAnthropic = TRUE
    /\ ServiceIdle
    /\ RepairIdle
    /\ FinalizeIdle
    /\ NormalizerIdle
    /\ PromptIdle
    /\ RouteIdle
    /\ ConcurrentIdle
    /\ AppIdle

\* onDrop; the dropzone is disabled while an error is shown.
OnDrop(file, rejection) ==
    /\ Mounted(app)
    /\ app.errorMessage = ""
    /\ IF rejection # ""
       THEN /\ app' = handleProcessingError(app, rejection)
            /\ UNCHANGED selectedFile
       ELSE /\ app' = handleProcessingError(app, "")
            /\ selectedFile' = file
    /\ UNCHANGED pending

\* The remove button of the selected file.
RemoveFile ==
    /\ Mounted(app)
    /\ selectedFile # NoFile
    /\ selectedFile' = NoFile
    /\ UNCHANGED <<app, pending>>

\* "Try Another File" of the error panel.
TryAnotherFile ==
    /\ Mounted(app)
    /\ app.errorMessage # ""
    /\ app' = handleProcessingError(app, "")
    /\ selectedFile' = NoFile
    /\ UNCHANGED pending

\* handleUpload up to its await, from "Start AI Analysis" or from "Retry
\* Upload" (shown with an error, for a file of type application/pdf).
HandleUpload ==
    /\ Mounted(app)
    /\ selectedFile # NoFile
    /\ Len(pending.settled) + Cardinality(pending.inflight) < MaxUploads
    /\ app' = handleProcessingStart(app)
    /\ pending' = [pending EXCEPT
                      !.inflight = @ \cup
                          {[id |-> CHOOSE n \in 1..MaxUploads :
                                      \A p \in pending.inflight : p.id # n,
                            file |-> selectedFile]}]
    /\ selectedFile' = Rendered(app, app', selectedFile)

\* uploadAndProcessPDF settles and handleUpload goes on: onFileProcessed,
\* or the catch block with onProcessingError.
UploadSettles(p, ok) ==
    /\ p \in pending.inflight
    /\ app' = IF ok THEN handleFileProcessed(app, p.file.name)
              ELSE handleProcessingError(app, UploadFailure)
    /\ pending' = [inflight |-> pending.inflight \ {p},
                   settled |-> Append(pending.settled, [file |-> p.file, ok |-> ok])]
    /\ selectedFile' = Rendered(app, app', selectedFile)

\* "Analyze New Document" of the results view.
AnalyzeNew ==
    /\ ~app.isProcessing
    /\ app.extractedData # ""
    /\ app' = NoApp
    /\ selectedFile' = Rendered(app, app', selectedFile)
    /\ UNCHANGED pending

besideApp ==
    <<serviceVars, repairVars, finalizeVars, normalizerVars, promptVars, routeVars,
      concurrentVars>>

Settling == \E p \in pending.inflight, ok \in BOOLEAN : UploadSettles(p, ok)

AppNext ==
    \/ (\E f \in Files : OnDrop(f, "")) /\ UNCHANGED besideApp
    \/ (\E f \in Files, m \in RejectionMessages : OnDrop(f, m)) /\ UNCHANGED besideApp
    \/ RemoveFile /\ UNCHANGED besideApp
    \/ TryAnotherFile /\ UNCHANGED besideApp
    \/ HandleUpload /\ UNCHANGED besideApp
    \/ Settling /\ UNCHANGED besideApp
    \/ AnalyzeNew /\ UNCHANGED besideApp

SpecApp == AppInit /\ [][AppNext]_vars

\* The request of an upload settles: the client gives up after 300000 ms.
SpecAppFair == SpecApp /\ WF_vars(Settling /\ UNCHANGED besideApp)

\* ================================================================ claims
BothConfigured == haveOpenAI /\ haveAnthropic
Planned == pc # "idle"
Preferred == IF options.model = "unset" THEN "openai" ELSE options.model
OtherProvider(p) == CHOOSE q \in {"openai", "anthropic"} : q # p
LastCall == IF calls = <<>> THEN "none" ELSE calls[Len(calls)]

\* C1: for every set of configured providers, preferred in {openai,
\* anthropic, unspecified} and either value of allowFallback, the plan is
\* the single configured provider when one is configured, otherwise
\* [preferred, other] with fallback and [preferred] without, preferred
\* defaulting to openai.
C1_PlanProviders ==
    (Planned /\ options.model \in {"openai", "anthropic", "unset"}) =>
        /\ (haveOpenAI /\ ~haveAnthropic) => providers = <<"openai">>
        /\ (haveAnthropic /\ ~haveOpenAI) => providers = <<"anthropic">>
        /\ (BothConfigured /\ allowFallback) =>
               providers = <<Preferred, OtherProvider(Preferred)>>
        /\ (BothConfigured /\ ~allowFallback) =>
               providers = <<Preferred>>

C1_Witness ==
    /\ Planned /\ BothConfigured
    /\ options.model = "anthropic" /\ allowFallback
    /\ providers = <<"anthropic", "openai">>

\* C2: provider invocations of one request never overlap, a second
\* provider is invoked only after the first attempt failed, and after a
\* success extractData has returned and invokes nothing more.
C2_Sequential ==
    /\ [](/\ Cardinality(inflight) <= 1
          /\ Len(calls) <= Len(errors) + 1
          /\ (inflight # {} => Len(errors) = Len(calls) - 1)
          /\ (pc = "returned" => inflight = {} /\ report # NoReport))
    /\ [][(Len(calls') > Len(calls)) =>
              /\ pc = "loop" /\ inflight = {} /\ report = NoReport
              /\ Len(errors) = Len(calls)]_vars
    /\ [][pc = "returned" => (pc' = "returned" /\ calls' = calls)]_vars

C2_Witness ==
    /\ Len(calls) = 2 /\ Len(errors) = 1
    /\ inflight = {calls[2]} /\ calls[1] # calls[2]

\* C3: both providers configured, fallback allowed, first planned provider
\* failed, second succeeded: the report is built from the second provider's
\* response and processingMethod names the second provider and its model.
C3_NamesSecond(p) ==
    IF p = "openai"
    THEN report.metadata.processingMethod[1] = "OpenAI"
         /\ report.metadata.processingMethod[2] \in {"gpt-4.1-2025-04-14", "gpt-4o-mini"}
    ELSE report.metadata.processingMethod = <<"Anthropic", "claude-3-haiku-20240307">>

C3_GoalCounts ==
    { <<Stringify(d), Len(d.v[1].val.v)>> :
          d \in {x \in Documents : x.v # <<>> /\ x.v[1].val.k = "arr"} }

C3_FromResponse ==
    \A p \in C3_GoalCounts :
        lastResponse.text = p[1] =>
            /\ report.summary.totalGoals = p[2]
            /\ Len(report.cols[1].v) = p[2]

C3_Fallback ==
    (/\ BothConfigured /\ allowFallback
     /\ pc = "returned" /\ Len(errors) = 1) =>
        /\ Len(providers) = 2
        /\ calls = <<Backend(providers[1]), Backend(providers[2])>>
        /\ lastResponse.kind = "content"
        /\ C3_NamesSecond(providers[2])
        /\ C3_FromResponse

C3_Witness ==
    /\ BothConfigured /\ allowFallback /\ options.model = "openai"
    /\ pc = "returned" /\ Len(errors) = 1
    /\ lastResponse.text = <<"{", "K", ":", "[", "{", "I", ":", "K", "}", "]", "}">>
    /\ report.metadata.processingMethod[1] = "Anthropic"

\* C4: both providers configured, fallback not allowed: the other provider
\* is never invoked, and a failure of the preferred provider fails the
\* request with an error that names the preferred provider only.
C4_NoFallback ==
    (Planned /\ BothConfigured /\ ~allowFallback) =>
        /\ \A j \in 1..Len(calls) : calls[j] = Backend(Preferred)
        /\ Len(calls) <= 1
        /\ (Len(errors) >= 1 => pc \in {"loop", "thrown"} /\ report = NoReport)
        /\ pc = "thrown" =>
               /\ Len(thrown.message) = 5
               /\ thrown.message[2] = Preferred
               /\ \A j \in 1..Len(thrown.message) :
                      thrown.message[j] # OtherProvider(Preferred)

C4_Witness ==
    /\ BothConfigured /\ ~allowFallback /\ options.model = "anthropic"
    /\ pc = "thrown" /\ calls = <<"anthropic">>
    /\ thrown.message[2] = "anthropic"

\* C5: extractData fails only if every planned provider attempt failed; a
\* provider answering with a well-formed document makes it return a report.
C5_WellFormed(d) ==
    /\ d.v # <<>> => d.v[1].val.k = "arr"
    /\ d.v # <<>> => \A j \in 1..Len(d.v[1].val.v) : d.v[1].val.v[j].k = "obj"

C5_WellFormedTexts == { Stringify(d) : d \in {x \in Documents : C5_WellFormed(x)} }

C5_FailsOnlyIfAllFail ==
    /\ pc = "thrown" =>
           /\ Len(errors) = Len(providers)
           /\ \A j \in 1..Len(providers) : errors[j][1] = providers[j]
           /\ report = NoReport
    /\ (lastResponse.kind = "content" /\ lastResponse.text \in C5_WellFormedTexts) =>
           (pc = "returned" /\ report # NoReport)
    /\ pc = "returned" => (thrown = NoError /\ Len(errors) < Len(providers))

C5_Witness ==
    /\ pc = "returned" /\ Len(providers) = 2 /\ Len(errors) = 1
    /\ lastResponse.text = <<"{", "K", ":", "[", "{", "}", "]", "}">>

\* C6: when every planned attempt failed, the error has status 502 and its
\* message lists exactly one entry per attempted provider, name and reason,
\* in the order of the attempts.
C6_Aggregate ==
    pc = "thrown" =>
        /\ thrown.statusCode = 502
        /\ Len(thrown.message) = 4 * Len(providers) + 1
        /\ thrown.message[1] = "Failed to extract data using AI ("
        /\ \A j \in 1..Len(providers) :
               /\ thrown.message[4 * j - 2] = providers[j]
               /\ thrown.message[4 * j - 1] = ": "
               /\ thrown.message[4 * j] = errors[j][3]
               /\ thrown.message[4 * j] # ""
               /\ thrown.message[4 * j + 1] = IF j < Len(providers) THEN " | " ELSE ")"
        /\ (lastResponse.kind = "error" /\ ~lastResponse.err.nullish) =>
               <<thrown.message[4 * Len(providers)]>>
                   \in {lastResponse.err.message, lastResponse.err.innerMessage,
                        lastResponse.err.statusText, lastResponse.err.str}

C6_Witness ==
    /\ pc = "thrown" /\ providers = <<"anthropic", "openai">>
    /\ Len(thrown.message) = 9
    /\ thrown.message[4] # thrown.message[8]

C8_SelfHealing ==
    (/\ build = "enhanced"
     /\ LastCall = "openai" /\ lastResponse.kind = "content"
     /\ lastResponse.text # <<>>
     /\ ~JSONParse(lastResponse.text).ok) =>
        /\ ParseOpenAIContent(lastResponse.text).ok
        /\ pc = "returned"
        /\ report # NoReport

\* C9 as claimed: a valid JSON object that lost one or more trailing
\* closing braces/brackets is recovered as the object it was.
FullText == Stringify(original)
Deleted == SubSeq(FullText, Len(raw) + 1, Len(FullText))
OnlyClosers(t) == t # <<>> /\ \A j \in 1..Len(t) : t[j] \in {"]", "}"}

BracketsThenBraces(t) ==
    \A i, j \in 1..Len(t) : (t[i] = "}" /\ t[j] = "]") => j < i

NoBraceInString(t) == \A j \in 1..Len(t) : t[j] # "B"

C10_NoRegionOrUnparsable(t) ==
    \/ ~HasJsonMatch(t)
    \/ ~JSONParse(JsonMatch(t)).ok

C10_HardFailure ==
    (/\ LastCall = "anthropic" /\ lastResponse.kind = "content"
     /\ C10_NoRegionOrUnparsable(lastResponse.text)) =>
        /\ pc \in {"loop", "thrown"}
        /\ report = NoReport
        /\ Len(errors) >= 1
        /\ idx = Len(errors) + 1
        /\ Backend(providers[Len(errors)]) = "anthropic"
        /\ errors[Len(errors)][1] = providers[Len(errors)]
        /\ errors[Len(errors)][3]
               \in {"No valid JSON found in Anthropic response", "Unexpected token in JSON"}

C10_Witness ==
    /\ LastCall = "anthropic" /\ lastResponse.kind = "content"
    /\ lastResponse.text = <<"{", "K", ":", "[">>
    /\ providers = <<"anthropic", "openai">>
    /\ pc = "loop" /\ idx = 2
    /\ errors = << <<"anthropic", ": ", "No valid JSON found in Anthropic response">> >>

\* ---------------------------------------------------------------- C11
\* The collection of category c as the provider sent it, and as the report
\* carries it.
SentRecords(c) ==
    IF CanRead(extractedData) /\ Truthy(Get(extractedData, Categories[c]))
    THEN Get(extractedData, Categories[c]).v
    ELSE <<>>

ReportRecords(c) == finalized.report.cols[c].v

Finalized == finalized.done /\ finalized.ok

\* C11: in every returned report, every record of each of the six
\* collections has a non-empty id and no two records of a collection share
\* an id, whatever ids the provider supplied (missing, empty, duplicated).
C11_UniqueIds ==
    Finalized =>
        \A c \in 1..Len(Categories) :
            LET rs == ReportRecords(c) IN
            /\ \A i \in 1..Len(rs) : Truthy(Get(rs[i], "id"))
            /\ \A i, j \in 1..Len(rs) :
                   i # j => Get(rs[i], "id") # Get(rs[j], "id")

\* ---------------------------------------------------------------- C12
WithoutId(record) == SelectSeq(record.v, LAMBDA m : m.key # "id")

KeysOf(record) == [j \in 1..Len(record.v) |-> record.v[j].key]

\* C12: the backfill changes nothing but missing (absent or empty) ids: a
\* record that carries an id keeps it, a record lacking one gains only the
\* id field, every other field of every record is as the provider sent it,
\* and the number and order of the records of each collection are kept.
C12_BackfillFrame ==
    Finalized =>
        \A c \in 1..Len(Categories) :
            LET sent == SentRecords(c)
                kept == ReportRecords(c) IN
            /\ Len(kept) = Len(sent)
            /\ \A j \in 1..Len(sent) :
                   /\ WithoutId(kept[j]) = WithoutId(sent[j])
                   /\ Truthy(Get(sent[j], "id")) => kept[j] = sent[j]
                   /\ HasKey(sent[j].v, "id") => KeysOf(kept[j]) = KeysOf(sent[j])
                   /\ ~HasKey(sent[j].v, "id") =>
                          KeysOf(kept[j]) = Append(KeysOf(sent[j]), "id")

C12_Witness ==
    /\ Finalized
    /\ \E i, j \in 1..Len(SentRecords(1)) :
           /\ i < j
           /\ ~HasKey(SentRecords(1)[i].v, "id")
           /\ Get(SentRecords(1)[j], "id") = Str("goal-1")
           /\ Get(ReportRecords(1)[j], "id") = Str("goal-1")
           /\ Truthy(Get(ReportRecords(1)[i], "id"))

\* ---------------------------------------------------------------- C13
GoalCount == Len(ReportRecords(1))

CompletedCount ==
    Cardinality({j \in 1..GoalCount :
                     Get(ReportRecords(1)[j], "status") = Str("completed")})

Normalized == pdfContent.done /\ pdfContent.ok /\ build = "enhanced"

\* C14: for every non-empty extracted text and every declared page count
\* n >= 1, pageTexts has exactly n elements.
C14_PageCount ==
    (Normalized /\ data.numpages >= 1) =>
        Len(pdfContent.pageTexts) = data.numpages

\* ---------------------------------------------------------------- C15
StripWhitespace(t) == SelectSeq(t, LAMBDA ch : ch \notin Whitespace)

ExactMultiple ==
    /\ Normalized
    /\ data.numpages >= 1
    /\ Len(data.text) % data.numpages = 0
    /\ Len(CleanedText(data.text)) % data.numpages = 0

Lossless ==
    /\ \A j \in 1..Len(pdfContent.pageTexts) : pdfContent.pageTexts[j] # <<>>
    /\ StripWhitespace(Flatten(pdfContent.pageTexts))
           = StripWhitespace(CleanedText(data.text))

\* No line of any page segment is taken for a header or footer.
NothingStripped ==
    LET segments == PageSegments(data.text, data.numpages)
    IN \A j \in 1..Len(segments) : removeHeadersFooters(segments[j]) = segments[j]

\* C15: for a text whose length is an exact multiple of the declared page
\* count, every page segment is non-empty and the segments put together in
\* order are the cleaned input, nothing lost and nothing twice, up to
\* whitespace.
C15_Lossless == ExactMultiple => Lossless

\* C15 as the code has it: the same, for a text none of whose segment
\* lines is stripped as a header or footer.
C15_LosslessUnstripped == (ExactMultiple /\ NothingStripped) => Lossless

C15_Witness ==
    /\ ExactMultiple
    /\ NothingStripped
    /\ data.numpages = 2
    /\ Len(pdfContent.pageTexts) = 2
    /\ Flatten(pdfContent.pageTexts) # CleanedText(data.text)
    /\ Lossless

\* ---------------------------------------------------------------- C16
ExactAt(t, i, word) ==
    /\ i + Len(word) - 1 <= Len(t)
    /\ \A j \in 1..Len(word) : t[i + j - 1] = word[j]

Contains(t, word) == \E i \in 1..Len(t) : ExactAt(t, i, word)

BrokenAtLineEnd(first, second) == first \o <<"-", "\n">> \o second

\* C16: a text containing "water-\nshed" or "non-\npoint" is normalized
\* to a text containing "watershed" or "nonpoint".
C16_Hyphenation ==
    (pdfContent.done /\ pdfContent.ok) =>
        /\ Contains(data.text, BrokenAtLineEnd(Water, Shed)) =>
               Contains(pdfContent.text, Water \o Shed)
        /\ Contains(data.text, BrokenAtLineEnd(Non, Point)) =>
               Contains(pdfContent.text, Non \o Point)

\* ---------------------------------------------------------------- C18
\* C18: the prompt embeds exactly the first 16,000 characters of the
\* document text (all of it when it is shorter) and carries the
\* "...[truncated]" marker exactly when the text is longer than 16,000.
C18_Budget ==
    prompt.built =>
        /\ prompt.embedded = (IF document.length > 16000 THEN 16000
                              ELSE document.length)
        /\ prompt.truncated <=> document.length > 16000

\* ---------------------------------------------------------------- C17
\* The text of the upload has been parsed and nothing is left of it after
\* cleaning.
CleanedEmpty ==
    /\ pdfContent.done
    /\ ~data.failed
    /\ IF build = "apps"
       THEN cleanText(data.text) = <<>>
       ELSE Flatten(fallbackPageExtraction(data.text, data.numpages)) = <<>>

\* C17: a document whose cleaned text is empty or whitespace-only fails at
\* once with the empty-document error; no normalized output is produced and
\* no provider is invoked for it.
C17_EmptyRejected ==
    CleanedEmpty =>
        /\ route = "responded"
        /\ ~pdfContent.ok
        /\ response.err = EmptyPdfError
        /\ calls = <<>>

\* ---------------------------------------------------------------- C19
\* C19: a request with both providers configured whose primary provider,
\* OpenAI, fails goes on to Anthropic, and is answered with Anthropic's
\* extraction when Anthropic succeeds.
C19_RouteFallback ==
    (/\ route = "responded"
     /\ BothConfigured
     /\ request.model = "unset"
     /\ pdfContent.ok
     /\ errors # <<>>) =>
        /\ calls = <<"openai", "anthropic">>
        /\ Len(errors) = 1 =>
               /\ response.ok
               /\ response.report.metadata.processingMethod[1] = "Anthropic"

\* ---------------------------------------------------------------- C20
Encrypted ==
    /\ data.failed
    /\ data.err.message \in {<<"No password given">>, <<"Incorrect ", "Password">>}

BadUpload ==
    \/ ~request.file
    \/ request.mimetype # PdfMime
    \/ ~request.signature
    \/ request.oversized
    \/ Encrypted
    \/ pdfContent.done /\ ~data.failed /\ TrimText(data.text) = <<>>

\* An error that blames the upload: one of the status-400 errors, or
\* multer's error for a file over the size limit.
InputError(err) == err.statusCode = 400 \/ err = FileTooLarge

\* C20: a request whose upload is missing, is not a PDF, is oversized, is
\* encrypted or yields no text ends in an input error, and no provider is
\* called at any point of it.
C20_InputErrors ==
    /\ (route = "responded" /\ BadUpload) =>
           /\ ~response.ok
           /\ InputError(response.err)
    /\ BadUpload => calls = <<>>

\* C21: whenever the text from OpenAI does not parse, the repaired text
\* (the missing closing brackets, then the missing closing braces,
\* appended) is parsed, and the empty skeleton is returned only when the
\* repaired text does not parse either: a repaired text that parses is what
\* the call returns.
Unparsable == rpc = "recovered" /\ raw # <<>> /\ ~JSONParse(raw).ok

C21_RepairAttempted ==
    (Unparsable /\ JSONParse(FixedContent(raw)).ok) =>
        recovered = Returned(JSONParse(FixedContent(raw)).val)

\* ---------------------------------------------------------------- C22
\* An upload that multer and the handler's own checks let through and whose
\* bytes hold the marker /Encrypt.
EncryptedUpload ==
    /\ route # "none"
    /\ request.file /\ request.mimetype = PdfMime
    /\ ~request.oversized /\ request.signature
    /\ request.encryptMarker

PasswordProtected ==
    createError(<<"Password-protected PDFs are not supported">>, 400)

\* C22: an upload whose bytes hold /Encrypt is answered with the status-400
\* error "Password-protected PDFs are not supported", and extractText is
\* never run on it.
C22_EncryptedRejected ==
    EncryptedUpload =>
        /\ ~pdfContent.done
        /\ route = "responded" => response = Rejected(PasswordProtected)

\* ---------------------------------------------------------------- C23
\* The page markers that lie whole within the first n characters of the
\* combined text.
MarkersWithin(pageLengths, n) ==
    Cardinality({ k \in 1..Len(pageLengths) : MarkerEnd(pageLengths, k) <= n })

\* C23: a prompt whose banner says that N pages were processed embeds a
\* document text that holds the N page markers === PAGE 1 === to
\* === PAGE N ===.
C23_BannerMarkers ==
    (prompt.built /\ prompt.banner > 0) =>
        MarkersWithin(document.pageLengths, prompt.embedded) = prompt.banner

\* ---------------------------------------------------------------- C24
\* What a request alone makes of a model field and of the outcomes of its
\* provider calls.
RECURSIVE Replay(_, _)
Replay(f, history) ==
    IF history = <<>> THEN f
    ELSE Replay(Resume(f, Append(f.errors, FailureOf(f, history[1].outcome)),
                       history[1].outcome, history[1].strict),
                Tail(history))

Alone(model, history) == Replay(Iterate(PlannedFrame(model)), history)

\* C24: whatever the interleaving of two requests served by one process,
\* the plan, the recorded failures and the report or error of each are
\* those of a request served alone with the same model field and the same
\* outcomes of its own provider calls.
C24_Isolation ==
    \A c \in Clients :
        frames[c].pc # "idle" =>
            frames[c] = Alone(frames[c].model, frames[c].history)

\* Both requests await their second provider, each after a failure of its
\* own first one.
C24_Witness ==
    /\ llmService
    /\ \A c \in Clients :
           /\ frames[c].pc = "await"
           /\ Len(frames[c].errors) = 1
           /\ Len(frames[c].calls) = 2
    /\ frames[1].providers # frames[2].providers

\* ---------------------------------------------------------------- C25
ControlChars == {"\f", "\r"}

NoControlChar(t) == \A j \in 1..Len(t) : t[j] \notin ControlChars

\* C25: no page text that extractText returns, and so no combined text,
\* holds a form feed or a carriage return.
C25_NoControlChars ==
    (pdfContent.done /\ pdfContent.ok) =>
        /\ \A j \in 1..Len(pdfContent.pageTexts) : NoControlChar(pdfContent.pageTexts[j])
        /\ NoControlChar(pdfContent.text)

\* ---------------------------------------------------------------- C26
\* C26: when an upload fails, the file that was selected for it is still
\* the selected file of the upload component once the error is shown.
C26_SelectionKept ==
    [][\A p \in pending.inflight :
           UploadSettles(p, FALSE) => selectedFile' = p.file]_vars

\* ---------------------------------------------------------------- C30
InFlight == pending.inflight

\* C30: at most one upload is in flight, isProcessing is true exactly while
\* one is, a request that settles leaves the results view on success and
\* the upload view with an error message on failure, and the processing
\* view is always left in the end.
C30_OneUpload ==
    /\ [](/\ Cardinality(InFlight) <= 1
          /\ app.isProcessing <=> InFlight # {})
    /\ [][\A p \in InFlight, ok \in BOOLEAN :
              UploadSettles(p, ok) =>
                  /\ ~app'.isProcessing
                  /\ ok => app'.extractedData = p.file.name
                  /\ ~ok => Mounted(app') /\ app'.errorMessage = UploadFailure]_vars
    /\ (app.isProcessing ~> ~app.isProcessing)

\* A failed upload, another file, and its report on the page.
C30_Witness ==
    /\ Len(pending.settled) = 2
    /\ ~pending.settled[1].ok /\ pending.settled[1].file.name = "scan.pdf"
    /\ pending.settled[2].ok /\ pending.settled[2].file.name = "plan.pdf"
    /\ app = [extractedData |-> "plan.pdf", isProcessing |-> FALSE, errorMessage |-> ""]
    /\ InFlight = {}

\* ---------------------------------------------------------------- C27
\* pdfParse handed back a text that is empty or whitespace only.
ParsedEmpty == pdfContent.done /\ ~data.failed /\ TrimText(data.text) = <<>>

\* C27: for a parsed text that is empty or whitespace only, the error that
\* extractText raises to its caller is the status-400 error "PDF appears to
\* be empty or contains no extractable text".
C27_EmptyError ==
    ParsedEmpty => (~pdfContent.ok /\ pdfContent.err = EmptyPdfError)

\* ---------------------------------------------------------------- C28
\* What the gateway makes of the response that arrives in this step.
ArrivedOutcome ==
    IF LastCall = "openai"
    THEN IF build = "apps" THEN ParseOpenAIContentApps(lastResponse'.text)
         ELSE ParseOpenAIContent(lastResponse'.text)
    ELSE ParseAnthropicPiece(TRUE, lastResponse'.text)

\* structureResponse raises on the value `outcome` carries.
RaisesOn(outcome) ==
    /\ outcome.ok
    /\ \A strict \in BOOLEAN :
           ~structureResponse(outcome.val, options.fileName, options.fileSize,
                              providers[idx], build, strict).ok

\* A response arrives, the gateway returns a value, and structureResponse
\* raises on that value.
FinalizeRaises ==
    /\ pc = "await"
    /\ lastResponse'.kind = "content"
    /\ LET outcome == ArrivedOutcome IN RaisesOn(outcome)

\* C28: what structureResponse raises is recorded as the failure of the
\* provider whose response it was given and the loop goes on to the next
\* planned provider; after the last one extractData throws the aggregate
\* error, and nothing else leaves it.
C28_FinalizeFailure ==
    [][FinalizeRaises =>
          /\ errors' = Append(errors, ErrorEntry(providers[idx], TypeError))
          /\ report' = NoReport
          /\ idx' = idx + 1
          /\ idx < Len(providers) => (pc' = "loop" /\ thrown' = NoError)
          /\ idx = Len(providers) =>
                 (pc' = "thrown" /\ thrown' = ExhaustedError(errors'))]_vars

\* OpenAI's response could not be finalized and Anthropic is being asked.
C28_Witness ==
    /\ errors = <<ErrorEntry("openai", TypeError)>>
    /\ calls = <<"openai", "anthropic">>
    /\ inflight = {"anthropic"}
    /\ pc = "await"

\* ---------------------------------------------------------------- C29
\* const provider = req.body?.model === "anthropic" ? "anthropic" : "openai"
LoggedProvider == IF request.model = "anthropic" THEN "anthropic" ELSE "openai"

\* C29: with both providers configured, the provider invoked for a request
\* is the one the handler selects and logs for it, whatever the model field
\* holds.
C29_InvokedAsLogged ==
    (BothConfigured /\ route # "none" /\ calls # <<>>) =>
        calls[1] = LoggedProvider

====
